---- MODULE Spec2Model ----
(***************************************************************************)
(* EnsembleLinear (src/spectralrl/module/net/basic.py): a linear layer     *)
(* that evaluates ensemble_size affine maps in one einsum, together with   *)
(* the weight_init dispatcher of the same file.                            *)
(*                                                                         *)
(* Tensors are records [err, shape, data]: shape is the sequence of        *)
(* dimension sizes, data maps every index tuple (0-based) to a value.      *)
(* Parameter values are integers counting units of 1/Scale, inputs are     *)
(* integers, so an output counts units of 1/Scale too; arithmetic is       *)
(* exact (floating-point rounding is not modelled).                        *)
(***************************************************************************)
EXTENDS Integers, Sequences, FiniteSets, TLC

VARIABLES status, args, err, in_features, out_features, ensemble_size,
          share_input, add_bias, weight, bias, last, input, out

vars == <<status, args, err, in_features, out_features, ensemble_size,
          share_input, add_bias, weight, bias, last, input, out>>

\* ------------------------------------------------------------------ bounds
\* Largest size of one tensor dimension the model enumerates.
MaxDim == 2
\* Largest number of randomly initialised elements (weight, and bias when
\* enabled) of a layer whose whole life cycle is explored.
MaxParams == 2
\* Parameter values are multiples of 1/Scale.
Scale == 1
\* Largest gain passed to weight_init.
MaxGain == 1

\* ----------------------------------------------------------------- tensors
RECURSIVE Indices(_)
Indices(shape) ==
    IF shape = <<>> THEN {<<>>}
    ELSE {<<i>> \o rest : i \in 0..(Head(shape) - 1), rest \in Indices(Tail(shape))}

RECURSIVE Numel(_)
Numel(shape) == IF shape = <<>> THEN 1 ELSE Head(shape) * Numel(Tail(shape))

Tensor(shape, data) == [err |-> "none", shape |-> shape, data |-> data]

\* The value of a call that raised: no tensor is returned.
Raised(kind) == [err |-> kind, shape |-> <<>>, data |-> <<>>]

NoTensor == Raised("unset")

\* torch.zeros(shape)
zeros(shape) == Tensor(shape, [idx \in Indices(shape) |-> 0])

RECURSIVE SumUpTo(_, _)
\* f[0] + ... + f[n-1]
SumUpTo(f, n) == IF n = 0 THEN 0 ELSE f[n - 1] + SumUpTo(f, n - 1)

\* Two sizes of one labelled (or aligned) dimension broadcast when they are
\* equal or one of them is 1.
Broadcastable(a, b) == a = b \/ a = 1 \/ b = 1

BroadcastSize(a, b) == IF a = 1 THEN b ELSE a

\* The index of a dimension of size n that serves position i of the
\* broadcast dimension.
BroadcastIndex(n, i) == IF n = 1 THEN 0 ELSE i

\* torch.einsum('...j,jkb->...kb', x, w)
einsum_shared(x, w) ==
    LET r == Len(x.shape) IN
    IF r < 1 THEN Raised("RuntimeError")
    ELSE
      LET a == x.shape[r]
          b == w.shape[1]
      IN IF ~Broadcastable(a, b) THEN Raised("RuntimeError")
         ELSE
           LET J == BroadcastSize(a, b)
               batch == SubSeq(x.shape, 1, r - 1)
               shape == batch \o <<w.shape[2], w.shape[3]>>
           IN Tensor(shape,
                [idx \in Indices(shape) |->
                   SumUpTo([j \in 0..(J - 1) |->
                              x.data[SubSeq(idx, 1, r - 1) \o <<BroadcastIndex(a, j)>>]
                              * w.data[<<BroadcastIndex(b, j), idx[r], idx[r + 1]>>]],
                           J)])

\* einsum_member gone wrong: every member is fed slice 0 of the input.
einsum_member_first(x, w) ==
    LET r == Len(x.shape) IN
    IF r < 2 THEN Raised("RuntimeError")
    ELSE
      LET a == x.shape[r]
          b == w.shape[1]
          xe == x.shape[1]
          we == w.shape[3]
      IN IF ~Broadcastable(a, b) \/ ~Broadcastable(xe, we) THEN Raised("RuntimeError")
         ELSE
           LET J == BroadcastSize(a, b)
               B == BroadcastSize(xe, we)
               batch == SubSeq(x.shape, 2, r - 1)
               n == Len(batch)
               shape == batch \o <<w.shape[2], B>>
           IN Tensor(shape,
                [idx \in Indices(shape) |->
                   SumUpTo([j \in 0..(J - 1) |->
                              x.data[<<0>> \o SubSeq(idx, 1, n) \o <<BroadcastIndex(a, j)>>]
                              * w.data[<<BroadcastIndex(b, j), idx[n + 1],
                                         BroadcastIndex(we, idx[n + 2])>>]],
                           J)])

\* torch.einsum('b...j,jkb->...kb', x, w)
einsum_member(x, w) ==
    LET r == Len(x.shape) IN
    IF r < 2 THEN Raised("RuntimeError")
    ELSE
      LET a == x.shape[r]
          b == w.shape[1]
          xe == x.shape[1]
          we == w.shape[3]
      IN IF ~Broadcastable(a, b) \/ ~Broadcastable(xe, we) THEN Raised("RuntimeError")
         ELSE
           LET J == BroadcastSize(a, b)
               B == BroadcastSize(xe, we)
               batch == SubSeq(x.shape, 2, r - 1)
               n == Len(batch)
               shape == batch \o <<w.shape[2], B>>
           IN Tensor(shape,
                [idx \in Indices(shape) |->
                   SumUpTo([j \in 0..(J - 1) |->
                              x.data[<<BroadcastIndex(xe, idx[n + 2])>> \o SubSeq(idx, 1, n)
                                     \o <<BroadcastIndex(a, j)>>]
                              * w.data[<<BroadcastIndex(b, j), idx[n + 1],
                                         BroadcastIndex(we, idx[n + 2])>>]],
                           J)])

\* add_bias_term gone wrong: the bias of member 0 is added to every member.
add_bias_first_member(res, b) ==
    IF res.err # "none" THEN res
    ELSE
      LET r == Len(res.shape)
      IN Tensor(res.shape,
                [idx \in Indices(res.shape) |-> res.data[idx] + b.data[<<idx[r - 1], 0>>]])

\* res + b for res of shape [..., k, e] and b of shape [k', e'] (torch
\* broadcasting aligns the trailing dimensions).
add_bias_term(res, b) ==
    IF res.err # "none" THEN res
    ELSE
      LET r == Len(res.shape)
          k == res.shape[r - 1]
          e == res.shape[r]
          bk == b.shape[1]
          be == b.shape[2]
      IN IF ~Broadcastable(k, bk) \/ ~Broadcastable(e, be) THEN Raised("RuntimeError")
         ELSE
           LET shape == SubSeq(res.shape, 1, r - 2)
                          \o <<BroadcastSize(k, bk), BroadcastSize(e, be)>>
           IN Tensor(shape,
                [idx \in Indices(shape) |->
                   res.data[SubSeq(idx, 1, r - 2)
                            \o <<BroadcastIndex(k, idx[r - 1]), BroadcastIndex(e, idx[r])>>]
                   + b.data[<<BroadcastIndex(bk, idx[r - 1]), BroadcastIndex(be, idx[r])>>]])

\* einsum_front gone wrong: the ensemble axis stays last.
einsum_front_kept(res) == res

\* torch.einsum('...b->b...', res)
einsum_front(res) ==
    IF res.err # "none" THEN res
    ELSE
      LET r == Len(res.shape)
          shape == <<res.shape[r]>> \o SubSeq(res.shape, 1, r - 1)
      IN Tensor(shape,
           [idx \in Indices(shape) |-> res.data[Tail(idx) \o <<Head(idx)>>]])

\* forward gone wrong: the branch without share_input forgets the bias.
forward_member_no_bias(self, x) ==
    IF self.share_input
    THEN einsum_front(add_bias_term(einsum_shared(x, self.weight), self.bias))
    ELSE einsum_front(einsum_member(x, self.weight))

\* EnsembleLinear.forward as a function of the layer's fields and the input.
forward(self, x) ==
    IF self.share_input
    THEN einsum_front(add_bias_term(einsum_shared(x, self.weight), self.bias))
    ELSE einsum_front(add_bias_term(einsum_member(x, self.weight), self.bias))

\* The layer as the record of the fields forward reads.
Self == [share_input |-> share_input, weight |-> weight, bias |-> bias]

\* ------------------------------------------------------- initialisation
\* std gone wrong: the bound is 1 whatever the fan-in.
std_unscaled(in_f) == Scale

\* std = 1.0 / math.sqrt(in_features), as the largest multiple of 1/Scale
\* that does not exceed it.
std(in_f) ==
    CHOOSE m \in 0..Scale : m * m * in_f <= Scale * Scale
                            /\ (m + 1) * (m + 1) * in_f > Scale * Scale

\* nn.init.uniform_(t, lo, hi) on a tensor of the given shape: the contents
\* it may leave, every element drawn independently.
uniform_(shape, lo, hi) == [Indices(shape) -> lo..hi]

\* reset_parameters gone wrong: the bias is drawn whether enabled or not.
reset_parameters_any_bias(in_f, w, b, ab) ==
    LET s == std(in_f) IN
    \E dw \in uniform_(w.shape, -s, s) :
    \E db \in uniform_(b.shape, -s, s) :
       /\ weight' = Tensor(w.shape, dw)
       /\ bias' = Tensor(b.shape, db)

\* The body of reset_parameters on a layer whose fields are in_f, w, b and
\* ab (add_bias): it overwrites weight, and bias when ab.
reset_parameters_on(in_f, w, b, ab) ==
    LET s == std(in_f) IN
    \E dw \in uniform_(w.shape, -s, s) :
    \E db \in IF ab THEN uniform_(b.shape, -s, s) ELSE {b.data} :
       /\ weight' = Tensor(w.shape, dw)
       /\ bias' = Tensor(b.shape, db)

\* torch.empty(shape): the elements are whatever the memory held; the model
\* lets the memory hold any one value, repeated.
empty(shape) ==
    {Tensor(shape, [idx \in Indices(shape) |-> v]) : v \in (-Scale)..Scale}

\* The outcomes of nn.init.orthogonal_ on a rows x cols matrix: the columns
\* are orthonormal when rows >= cols, the rows otherwise, all scaled by gain.
orthogonal_(rows, cols, gain) ==
    LET shape == <<rows, cols>>
        unit == Scale * Scale
        Dot(m, a, b, byCol) ==
            IF byCol
            THEN SumUpTo([r \in 0..(rows - 1) |-> m[<<r, a>>] * m[<<r, b>>]], rows)
            ELSE SumUpTo([c \in 0..(cols - 1) |-> m[<<a, c>>] * m[<<b, c>>]], cols)
        Orthonormal(m) ==
            IF rows >= cols
            THEN \A a, b \in 0..(cols - 1) :
                    Dot(m, a, b, TRUE) = IF a = b THEN unit ELSE 0
            ELSE \A a, b \in 0..(rows - 1) :
                    Dot(m, a, b, FALSE) = IF a = b THEN unit ELSE 0
    IN {[idx \in Indices(shape) |-> gain * m[idx]] :
          m \in {q \in [Indices(shape) -> (-Scale)..Scale] : Orthonormal(q)}}

\* ------------------------------------------------------------ life cycle
\* A size argument of the constructor is carried as twice its value, so
\* that the non-integral 1/2, 3/2, ... can be passed: t stands for t/2.
SizeArgs == (-2)..(2 * MaxDim)

Integral(t) == t % 2 = 0

Whole(t) == t \div 2

NoArgs == [in_features |-> 0, out_features |-> 0, ensemble_size |-> 0]

\* The exception, if any, raised by __init__ for the given size arguments:
\* torch.empty rejects a non-integer size (TypeError) and a negative one
\* (RuntimeError); reset_parameters divides by math.sqrt(in_features).
init_error(a) ==
    IF ~Integral(a.in_features) \/ ~Integral(a.out_features)
       \/ ~Integral(a.ensemble_size)
    THEN "TypeError"
    ELSE IF a.in_features < 0 \/ a.out_features < 0 \/ a.ensemble_size < 0
    THEN "RuntimeError"
    ELSE IF a.in_features = 0
    THEN "ZeroDivisionError"
    ELSE "none"

Init ==
    /\ status = "new"
    /\ args = NoArgs
    /\ err = "none"
    /\ in_features = 0
    /\ out_features = 0
    /\ ensemble_size = 0
    /\ share_input = TRUE
    /\ add_bias = TRUE
    /\ weight = NoTensor
    /\ bias = NoTensor
    /\ last = "none"
    /\ input = NoTensor
    /\ out = NoTensor

\* EnsembleLinear.__init__(in_features, out_features, ensemble_size,
\* share_input, bias), reset_parameters included.
EnsembleLinear_init(a, share, b) ==
    /\ status = "new"
    /\ args' = a
    /\ last' = "init"
    /\ UNCHANGED <<input, out>>
    /\ IF init_error(a) # "none"
       THEN /\ status' = "failed"
            /\ err' = init_error(a)
            /\ UNCHANGED <<in_features, out_features, ensemble_size,
                           share_input, add_bias, weight, bias>>
       ELSE LET i == Whole(a.in_features)
                o == Whole(a.out_features)
                e == Whole(a.ensemble_size)
            IN /\ i * o * e + (IF b THEN o * e ELSE 0) <= MaxParams
               /\ status' = "ready"
               /\ err' = "none"
               /\ in_features' = i
               /\ out_features' = o
               /\ ensemble_size' = e
               /\ share_input' = share
               /\ add_bias' = b
               /\ \E w0 \in empty(<<i, o, e>>) :
                  \E b0 \in IF b THEN empty(<<o, e>>) ELSE {zeros(<<o, e>>)} :
                     reset_parameters_on(i, w0, b0, b)

\* EnsembleLinear.reset_parameters()
reset_parameters ==
    /\ status = "ready"
    /\ reset_parameters_on(in_features, weight, bias, add_bias)
    /\ last' = "reset_parameters"
    /\ input' = NoTensor
    /\ out' = NoTensor
    /\ UNCHANGED <<status, args, err, in_features, out_features, ensemble_size,
                   share_input, add_bias>>

\* weight_init gone wrong: it hands the layer to reset_parameters.
weight_init_delegating(gain) ==
    /\ status = "ready"
    /\ reset_parameters_on(in_features, weight, bias, add_bias)
    /\ last' = "weight_init"
    /\ input' = NoTensor
    /\ out' = NoTensor
    /\ UNCHANGED <<status, args, err, in_features, out_features, ensemble_size,
                   share_input, add_bias>>

\* weight_init(m, gain) for m this layer: the nn.Linear branch is skipped,
\* the EnsembleLinear branch runs orthogonal_ on every slice weight[..., i]
\* (there is none when ensemble_size = 0, and orthogonal_ is a no-op on a
\* slice without elements) and zero-fills the bias.
weight_init(gain) ==
    /\ status = "ready"
    /\ IF in_features * out_features * ensemble_size = 0
       THEN weight' = weight
       ELSE \E ms \in [0..(ensemble_size - 1) ->
                          orthogonal_(in_features, out_features, gain)] :
               weight' = Tensor(weight.shape,
                                [idx \in Indices(weight.shape) |->
                                    ms[idx[3]][<<idx[1], idx[2]>>]])
    /\ bias' = Tensor(bias.shape, [idx \in Indices(bias.shape) |-> 0])
    /\ last' = "weight_init"
    /\ input' = NoTensor
    /\ out' = NoTensor
    /\ UNCHANGED <<status, args, err, in_features, out_features, ensemble_size,
                   share_input, add_bias>>

\* A tensor of the given shape with every element v.
full(shape, v) == Tensor(shape, [idx \in Indices(shape) |-> v])

\* The inputs passed to forward during a life cycle: vectors and matrices
\* of ones, of every size, well-shaped for the layer or not.
LifeInputs ==
    {full(<<n>>, 1) : n \in 1..MaxDim}
    \cup {full(<<m, n>>, 1) : m \in 1..MaxDim, n \in 1..MaxDim}

\* forward gone wrong: the result is accumulated into the bias in place.
Call_forward_in_place(x) ==
    /\ status = "ready"
    /\ input' = x
    /\ out' = forward(Self, x)
    /\ last' = "forward"
    /\ bias' = Tensor(bias.shape, [idx \in Indices(bias.shape) |-> bias.data[idx] + 1])
    /\ UNCHANGED <<status, args, err, in_features, out_features, ensemble_size,
                   share_input, add_bias, weight>>

\* EnsembleLinear.forward(input), called on a constructed layer.
Call_forward(x) ==
    /\ status = "ready"
    /\ input' = x
    /\ out' = forward(Self, x)
    /\ last' = "forward"
    /\ UNCHANGED <<status, args, err, in_features, out_features, ensemble_size,
                   share_input, add_bias, weight, bias>>

Next ==
    \/ \E ai \in SizeArgs, ao \in SizeArgs, ae \in SizeArgs,
          share \in BOOLEAN, b \in BOOLEAN :
          EnsembleLinear_init([in_features |-> ai, out_features |-> ao,
                               ensemble_size |-> ae], share, b)
    \/ reset_parameters
    \/ \E gain \in 1..MaxGain : weight_init(gain)
    \/ \E x \in LifeInputs : Call_forward(x)

Spec == Init /\ [][Next]_vars

\* -------------------------------------------------- forward on its own
RECURSIVE Offset(_, _)
\* The row-major position of idx in a tensor of the given shape.
Offset(shape, idx) ==
    IF shape = <<>> THEN 0
    ELSE Head(idx) * Numel(Tail(shape)) + Offset(Tail(shape), Tail(idx))

\* torch.arange(1, n + 1).reshape(shape): every element different.
arange(shape) == Tensor(shape, [idx \in Indices(shape) |-> 1 + Offset(shape, idx)])

\* The tensor that is 1 at p and 0 elsewhere.
one_hot(shape, p) == Tensor(shape, [idx \in Indices(shape) |-> IF idx = p THEN 1 ELSE 0])

\* The tensors of one shape that forward is tried on.
Samples(shape) ==
    {arange(shape), full(shape, 1)} \cup {one_hot(shape, p) : p \in Indices(shape)}

\* The shapes of the inputs: up to three dimensions.
InputShapes ==
    {<<a>> : a \in 1..MaxDim}
    \cup {<<a, b>> : a \in 1..MaxDim, b \in 1..MaxDim}
    \cup {<<a, b, c>> : a \in 1..MaxDim, b \in 1..MaxDim, c \in 1..MaxDim}

\* A constructed layer whose parameters an optimizer has since written, and
\* an input about to be passed to forward.
InitFwd ==
    /\ status = "ready"
    /\ err = "none"
    /\ in_features \in 1..MaxDim
    /\ out_features \in 1..MaxDim
    /\ ensemble_size \in 1..MaxDim
    /\ args = [in_features |-> 2 * in_features, out_features |-> 2 * out_features,
               ensemble_size |-> 2 * ensemble_size]
    /\ share_input \in BOOLEAN
    /\ add_bias \in BOOLEAN
    /\ weight \in {arange(<<in_features, out_features, ensemble_size>>),
                   full(<<in_features, out_features, ensemble_size>>, 1)}
    /\ bias = IF add_bias
              THEN arange(<<out_features, ensemble_size>>)
              ELSE zeros(<<out_features, ensemble_size>>)
    /\ last = "init"
    /\ input \in UNION {Samples(shape) : shape \in InputShapes}
    /\ out = NoTensor

NextFwd == Call_forward(input)

SpecFwd == InitFwd /\ [][NextFwd]_vars

\* ------------------------------------------------- properties of forward
\* x has the shape forward documents for the layer's mode:
\* [..., in_features] when share_input, [ensemble_size, ..., in_features]
\* otherwise.
ValidInput(x) ==
    LET r == Len(x.shape) IN
    IF share_input
    THEN r >= 1 /\ x.shape[r] = in_features
    ELSE r >= 2 /\ x.shape[1] = ensemble_size /\ x.shape[r] = in_features

\* The batch dimensions of a well-shaped input, between the ensemble axis
\* (if any) and the feature axis.
Middle(x) ==
    IF share_input THEN SubSeq(x.shape, 1, Len(x.shape) - 1)
    ELSE SubSeq(x.shape, 2, Len(x.shape) - 1)

OutShape(x) == <<ensemble_size>> \o Middle(x) \o <<out_features>>

\* sum over j of x[..., j] * weight[j, k, e] + bias[k, e], written out for
\* one member e, one batch position and one output feature k.
Affine(xrow, k, e) ==
    SumUpTo([j \in 0..(in_features - 1) |-> xrow[j] * weight.data[<<j, k, e>>]],
            in_features)
    + bias.data[<<k, e>>]

\* C1: with share_input, a well-shaped input gives
\* output[e, ..., k] = sum_j input[..., j] * weight[j, k, e] + bias[k, e]
\* for every member e, batch position and output feature k.
C1_SharedAffine ==
    (last = "forward" /\ share_input /\ ValidInput(input)) =>
        /\ out.err = "none"
        /\ out.shape = OutShape(input)
        /\ \A idx \in Indices(out.shape) :
             LET n == Len(idx)
                 pos == SubSeq(idx, 2, n - 1)
             IN out.data[idx] =
                  Affine([j \in 0..(in_features - 1) |-> input.data[pos \o <<j>>]],
                         idx[n], idx[1])

\* A shared-input call on a batch, two members and two input features whose
\* members answer differently.
C1_Witness ==
    /\ last = "forward" /\ share_input /\ ValidInput(input)
    /\ ensemble_size = 2 /\ in_features = 2 /\ Len(input.shape) = 2
    /\ out.err = "none"
    /\ \E idx \in Indices(out.shape) :
          idx[1] = 0 /\ out.data[idx] # out.data[<<1>> \o Tail(idx)]

\* x with every slice but slice e (of the leading axis) taken from y.
SpliceFirst(x, y, e) ==
    Tensor(x.shape, [idx \in Indices(x.shape) |->
                        IF idx[1] = e THEN x.data[idx] ELSE y.data[idx]])

\* x with every slice but slice e (of the trailing axis) taken from y.
SpliceLast(x, y, e) ==
    Tensor(x.shape, [idx \in Indices(x.shape) |->
                        IF idx[Len(idx)] = e THEN x.data[idx] ELSE y.data[idx]])

\* Slice e of the leading axis of t.
SliceFirst(t, e) ==
    [idx \in {i \in Indices(t.shape) : i[1] = e} |-> t.data[idx]]

\* The tensors whose slices replace those of another tensor of that shape.
Replacements(shape) == {arange(shape), zeros(shape), full(shape, 1)}

\* C2: without share_input, output[e] depends only on input[e], weight[:, :, e]
\* and bias[:, e]: replacing every other slice of the input, the weight and
\* the bias leaves output[e] as it was.
C2_MemberIsolation ==
    (last = "forward" /\ ~share_input /\ ValidInput(input)) =>
        \A e \in 0..(ensemble_size - 1) :
           LET Same(other) ==
                   /\ other.err = "none"
                   /\ other.shape = out.shape
                   /\ SliceFirst(other, e) = SliceFirst(out, e)
               Others(w, b) ==
                   [share_input |-> FALSE,
                    weight |-> SpliceLast(weight, w, e),
                    bias |-> SpliceLast(bias, b, e)]
           IN /\ \A y \in Replacements(input.shape) :
                    Same(forward(Self, SpliceFirst(input, y, e)))
              /\ \A w \in {arange(weight.shape), zeros(weight.shape)} :
                    /\ Same(forward(Others(w, full(bias.shape, 1)), input))
                    /\ Same(forward(Others(w, full(bias.shape, 1)),
                                    SpliceFirst(input, arange(input.shape), e)))

\* A call without share_input where perturbing the input of member 0 changes
\* the output of member 0 (and, by C2, not that of member 1).
C2_Witness ==
    /\ last = "forward" /\ ~share_input /\ ValidInput(input)
    /\ ensemble_size = 2 /\ in_features = 2
    /\ \E y \in Replacements(input.shape) :
          SliceFirst(forward(Self, SpliceFirst(input, y, 1)), 0) # SliceFirst(out, 0)

\* C3: on a well-shaped input forward raises nothing and returns a tensor of
\* shape [ensemble_size, ..., out_features], in both modes, with or without
\* batch dimensions in the middle.
C3_OutputShape ==
    (last = "forward" /\ ValidInput(input)) =>
        out.err = "none" /\ out.shape = OutShape(input)

\* A call without share_input on an input with one batch dimension, all
\* sizes different from 1.
C3_Witness ==
    /\ last = "forward" /\ ~share_input /\ ValidInput(input)
    /\ Len(input.shape) = 3 /\ input.shape[2] = 2
    /\ ensemble_size = 2 /\ in_features = 2 /\ out.err = "none"

\* C4: forward raises on every input that is not well-shaped.
C4_RejectsMisShaped ==
    (last = "forward" /\ ~ValidInput(input)) => out.err # "none"

\* E copies of x stacked along a new leading axis.
Stack(x, n) ==
    Tensor(<<n>> \o x.shape,
           [idx \in Indices(<<n>> \o x.shape) |-> x.data[Tail(idx)]])

\* C10: forward with share_input on x equals forward without share_input,
\* same weight and bias, on ensemble_size stacked copies of x.
C10_ModesAgree ==
    (last = "forward" /\ share_input /\ ValidInput(input)) =>
        forward([share_input |-> FALSE, weight |-> weight, bias |-> bias],
                Stack(input, ensemble_size)) = out

\* A shared-input call with two members and two input features whose output
\* is not just the bias.
C10_Witness ==
    /\ last = "forward" /\ share_input /\ ValidInput(input)
    /\ ensemble_size = 2 /\ in_features = 2 /\ out.err = "none"
    /\ \E idx \in Indices(out.shape) :
          out.data[idx] # bias.data[<<idx[Len(idx)], idx[1]>>]

\* ---------------------------------------------- properties of the life cycle
\* The size arguments are positive integers.
ValidSizes(a) ==
    /\ Integral(a.in_features) /\ a.in_features > 0
    /\ Integral(a.out_features) /\ a.out_features > 0
    /\ Integral(a.ensemble_size) /\ a.ensemble_size > 0

\* C5: construction fails, and yields no layer, whenever a size argument is
\* not a positive integer.
C5_RejectsInvalidSizes ==
    (status # "new" /\ ~ValidSizes(args)) => (status = "failed" /\ err # "none")

\* C6: a layer constructed with bias=false has an all-zero bias in every
\* state, whatever calls were made on it.
C6_ZeroBiasKept ==
    (status = "ready" /\ ~add_bias) =>
        bias = zeros(<<out_features, ensemble_size>>)

\* A layer without bias and with two members, after a reset that followed
\* other calls.
C6_Witness ==
    /\ status = "ready" /\ ~add_bias /\ ensemble_size = 2 /\ out_features = 1
    /\ last = "reset_parameters"
    /\ \E idx \in Indices(weight.shape) : weight.data[idx] # 0

\* v / Scale lies in [-1/sqrt(in_features), 1/sqrt(in_features)].
InInitRange(v) == v * v * in_features <= Scale * Scale

\* C7: right after construction and right after reset_parameters every
\* element of weight, and of bias when enabled, lies in
\* [-1/sqrt(in_features), 1/sqrt(in_features)].
C7_InitRange ==
    (status = "ready" /\ last \in {"init", "reset_parameters"}) =>
        /\ \A idx \in Indices(weight.shape) : InInitRange(weight.data[idx])
        /\ add_bias => \A idx \in Indices(bias.shape) : InInitRange(bias.data[idx])

\* A reset of a layer with bias that left a weight and a bias at the ends of
\* the interval.
C7_Witness ==
    /\ status = "ready" /\ last = "reset_parameters" /\ add_bias
    /\ \E idx \in Indices(weight.shape) :
          weight.data[idx] * weight.data[idx] * in_features = Scale * Scale
    /\ \E idx \in Indices(bias.shape) : bias.data[idx] # 0

\* C8: a call of forward, returning or raising, changes no field of the
\* layer, and a second call on the same input returns the same output.
C8_ForwardPure ==
    [][last' = "forward" =>
          /\ weight' = weight /\ bias' = bias
          /\ in_features' = in_features /\ out_features' = out_features
          /\ ensemble_size' = ensemble_size /\ share_input' = share_input
          /\ add_bias' = add_bias
          /\ (last = "forward" /\ input' = input) => out' = out]_vars

\* A forward call that returned, on a layer with a non-zero bias.
C8_Witness ==
    /\ last = "forward" /\ add_bias /\ out.err = "none"
    /\ \E idx \in Indices(bias.shape) : bias.data[idx] # 0

\* C9 as claimed: after weight_init the parameters are those of the uniform
\* scheme on [-1/sqrt(in_features), 1/sqrt(in_features)].
C9_DelegatesToReset ==
    (status = "ready" /\ last = "weight_init") =>
        /\ \A idx \in Indices(weight.shape) : InInitRange(weight.data[idx])
        /\ add_bias => \A idx \in Indices(bias.shape) : InInitRange(bias.data[idx])

\* Slice e of the weight is, up to a gain, a matrix with orthonormal columns
\* (in_features >= out_features) or orthonormal rows.
OrthogonalSlice(e) ==
    \E gain \in 1..MaxGain :
       LET unit == gain * gain * Scale * Scale
           W(j, k) == weight.data[<<j, k, e>>]
       IN IF in_features >= out_features
          THEN \A a, b \in 0..(out_features - 1) :
                  SumUpTo([j \in 0..(in_features - 1) |-> W(j, a) * W(j, b)],
                          in_features)
                  = IF a = b THEN unit ELSE 0
          ELSE \A a, b \in 0..(in_features - 1) :
                  SumUpTo([k \in 0..(out_features - 1) |-> W(a, k) * W(b, k)],
                          out_features)
                  = IF a = b THEN unit ELSE 0

\* C9 amended: after weight_init every member slice weight[..., e] is an
\* orthogonal initialisation scaled by the gain and the bias is all zeros.
C9_OrthogonalPerMember ==
    (status = "ready" /\ last = "weight_init") =>
        /\ \A e \in 0..(ensemble_size - 1) : OrthogonalSlice(e)
        /\ bias = zeros(<<out_features, ensemble_size>>)

\* weight_init has left a weight outside the interval of the uniform scheme.
C9_Witness ==
    /\ status = "ready" /\ last = "weight_init"
    /\ \E idx \in Indices(weight.shape) : ~InInitRange(weight.data[idx])

====
